---- MODULE Spec2Model ----
(***************************************************************************)
(* Front end of the sila compiler: Scanner and tokenizer (src/lexer.rs),   *)
(* recursive-descent parser (src/parser.rs), diagnostics                   *)
(* (src/comp_errors.rs) and the compile job that drives them (src/main.rs).*)
(*                                                                         *)
(* A character is a string: one ASCII character stands for itself, and a   *)
(* longer string names a character outside ASCII.  A Rust String is a      *)
(* sequence of characters.  usize arithmetic is modelled with its two      *)
(* build outcomes: a build with overflow checks panics on `a - b` with     *)
(* a < b, a build without them wraps.                                      *)
(***************************************************************************)
EXTENDS Integers, Sequences, FiniteSets, TLC

VARIABLES
    overflow_checks,  \* the build: TRUE when usize overflow panics (debug profile)
    file_content,     \* FileManager.content: the source text
    scanner,          \* the Scanner of tokenize, as tokenize left it
    tokenized,        \* what tokenize returned, or the panic that ended it
    pointer,          \* the cursor compile_job passes to Parser::parse (&mut 0)
    statements,       \* the Vec<ASTNode> Parser::parse is building
    printed,          \* diagnostics rendered so far, in order
    result,           \* what compile_job has returned, or the panic that ended it
    pc                \* where the compile job stands

vars == <<overflow_checks, file_content, scanner, tokenized, pointer, statements,
          printed, result, pc>>

(***************************************************************************)
(* Bounds of the explored inputs.                                          *)
(***************************************************************************)
MaxLen == 4        \* characters of a text over LexChars
MaxOpLen == 2      \* characters of a text over OperatorChars
MaxTop == 3        \* words of a text over TopWords
MaxModifiers == 2  \* modifier words after `def`
MaxBody == 4       \* pieces of a function body over StatementPieces
MaxExpr == 5       \* pieces of a returned expression over ArithmeticPieces
MaxCall == 4       \* pieces of a returned expression over CallPieces
MaxCast == 3       \* pieces of a returned expression over CastPieces
MaxArgs == 4       \* pieces of an argument list over ArgumentPieces
MaxNumberLen == 5  \* characters of a text over NumberChars

(***************************************************************************)
(* usize.  TLC's integers are 32 bits wide, so the 2^64 values of a usize  *)
(* are scaled to 2^30: a wrapped difference is far above every index,      *)
(* line and column of a bounded source, as it is in the program.           *)
(***************************************************************************)
UsizeRange == 2^30

wrapping_sub(a, b) == IF a >= b THEN a - b ELSE a - b + UsizeRange

\* `a - b` panics ("attempt to subtract with overflow") in a checked build.
sub_panics(a, b) == overflow_checks /\ a < b

None == "None"

(***************************************************************************)
(* Characters and their classes (char::is_alphabetic, is_alphanumeric,     *)
(* is_digit(10), and the UTF-8 length String::len counts).                 *)
(***************************************************************************)
AsciiLetters ==
    {"a", "b", "c", "d", "e", "f", "g", "h", "i", "j", "k", "l", "m",
     "n", "o", "p", "q", "r", "s", "t", "u", "v", "w", "x", "y", "z"}

\* U+00E9, a letter of two UTF-8 bytes.
NonAsciiLetters == {"U+00E9"}

Digits == {"0", "1", "2", "3", "4", "5", "6", "7", "8", "9"}

Alphabetic == AsciiLetters \cup NonAsciiLetters

is_alphabetic(c) == c \in Alphabetic

is_digit(c) == c \in Digits

is_alphanumeric(c) == is_alphabetic(c) \/ is_digit(c)

len_utf8(c) == IF c \in NonAsciiLetters THEN 2 ELSE 1

RECURSIVE string_len(_)
string_len(s) == IF s = <<>> THEN 0 ELSE len_utf8(Head(s)) + string_len(Tail(s))

(***************************************************************************)
(* CodePosition (lexer.rs 104-164).                                        *)
(***************************************************************************)
CodePosition(is, ie, ls, le, lis, lie) ==
    [idx_start |-> is, idx_end |-> ie, line_start |-> ls, line_end |-> le,
     line_idx_start |-> lis, line_idx_end |-> lie]

one_char(idx, ln, line_idx) ==
    CodePosition(idx, idx, ln, ln, wrapping_sub(line_idx, 1), line_idx)

eof == CodePosition(0, 0, 0, 0, 0, 0)

is_eof(p) ==
    /\ p.idx_start = 0
    /\ p.line_start = 0
    /\ p.line_idx_start = 0
    /\ p.line_idx_end = 0

merge(a, b) ==
    CodePosition(a.idx_start, b.idx_end, a.line_start, b.line_end,
                 a.line_idx_start, b.line_idx_end)

Token(content, token_type, code_position) ==
    [content |-> content, token_type |-> token_type, code_position |-> code_position]

from_one(idx, ln, line_idx, content, token_type) ==
    Token(<<content>>, token_type, one_char(idx, ln, line_idx))

(***************************************************************************)
(* CodeError (comp_errors.rs 29-66).  The footer of an unexpected-token    *)
(* error is kept as the pair of kinds its text names.                      *)
(***************************************************************************)
visualize(t) ==
    CASE t = "Define" -> "def"
      [] t = "Export" -> "export"
      [] t = "Import" -> "import"
      [] t = "Extern" -> "extern"
      [] t = "Mut" -> "mut"
      [] t = "Identifier" -> "Identifier"
      [] t = "String" -> "String"
      [] t = "NumberInt" -> "Integer"
      [] t = "NumberFloat" -> "Floating-point"
      [] t = "LParen" -> "("
      [] t = "RParen" -> ")"
      [] t = "Comma" -> ","
      [] t = "Dot" -> "."
      [] t = "Plus" -> "+"
      [] t = "Minus" -> "-"
      [] t = "Slash" -> "/"
      [] t = "Star" -> "*"
      [] t = "Colon" -> ":"
      [] t = "SemiColon" -> ";"
      [] t = "Greater" -> ">"
      [] t = "Lesser" -> "<"
      [] t = "Pipe" -> "|"
      [] t = "And" -> "&"
      [] t = "Ref" -> "&"
      [] t = "Exclamation" -> "!"
      [] t = "Equals" -> "="
      [] t = "DoubleEquals" -> "=="
      [] t = "NotEquals" -> "!="
      [] t = "GreaterEquals" -> ">="
      [] t = "LesserEquals" -> "<="
      [] t = "RBrace" -> "}"
      [] t = "LBrace" -> "{"
      [] t = "As" -> "->"
      [] t = "Private" -> "private"
      [] t = "Return" -> "return"
      [] t = "Expression" -> "Expression"
      [] t = "Statement" -> "Statement"

CodeError(position, code_error_type, title, footer, notes) ==
    [position |-> position, code_error_type |-> code_error_type,
     title |-> title, footer |-> footer, notes |-> notes]

new_unexpected_token_error(token, expected, extra) ==
    CodeError(token.code_position, "ParserUnexpectedToken", "Unexpected Token",
              <<visualize(expected), visualize(token.token_type)>>,
              IF extra # None THEN <<extra>> ELSE <<>>)

new_unknown_char_error(position, c) ==
    CodeError(position, "LexerUnknownChar", "Unknown character", <<c>>, <<>>)

new_eof_error ==
    CodeError(eof, "LexerEndOfFile", "End of File", <<>>, <<>>)

missing_token_error(last_token) ==
    CodeError(last_token.code_position, "MissingTokenError", "Missing token",
              <<>>, <<>>)

(***************************************************************************)
(* Scanner (lexer.rs 189-279).                                             *)
(***************************************************************************)
scanner_new(string) ==
    [cursor |-> 0, line |-> 0, line_idx |-> 0, characters |-> string]

get(v, i) == IF i >= 0 /\ i < Len(v) THEN v[i + 1] ELSE None

peek(sc) == get(sc.characters, sc.cursor)

scanner_is_done(sc) == sc.cursor = Len(sc.characters)

\* The scanner after pop(); pop() returns peek(sc).
pop(sc) ==
    IF peek(sc) = None THEN sc
    ELSE IF peek(sc) = "\n"
    THEN [sc EXCEPT !.cursor = @ + 1, !.line = @ + 1, !.line_idx = 0]
    ELSE [sc EXCEPT !.cursor = @ + 1, !.line_idx = @ + 1]

scanner_previous(sc) == get(sc.characters, wrapping_sub(sc.cursor, 1))

\* Results of the scanner's and tokenizer's steps: a value, nothing, an error,
\* or a panic, each with the scanner as it was left.
LexSome(sc, t) == [tag |-> "Some", sc |-> sc, val |-> t]
LexNone(sc) == [tag |-> "None", sc |-> sc, val |-> None]
LexErr(sc, e) == [tag |-> "Err", sc |-> sc, val |-> e]
LexPanic(sc, m) == [tag |-> "Panic", sc |-> sc, val |-> m]

this_as_token(sc, token_type) ==
    IF sub_panics(sc.cursor, 1) THEN LexPanic(sc, "overflow")
    ELSE IF scanner_previous(sc) = None THEN LexNone(sc)
    ELSE IF sub_panics(sc.line_idx, 1) THEN LexPanic(sc, "overflow")
    ELSE LexSome(sc, from_one(sc.cursor, sc.line, sc.line_idx,
                              scanner_previous(sc), token_type))

this_as_codepos(sc) ==
    IF scanner_is_done(sc) THEN LexNone(sc)
    ELSE IF sub_panics(sc.line_idx, 1) THEN LexPanic(sc, "overflow")
    ELSE LexSome(sc, one_char(sc.cursor, sc.line, sc.line_idx))

this_as_codepos2(sc) ==
    IF this_as_codepos(sc).tag = "None" THEN LexPanic(sc, "expect")
    ELSE this_as_codepos(sc)

(***************************************************************************)
(* tokenizer (lexer.rs 281-486): one call, from the scanner sc to the next *)
(* token, the end of the input, the first error or a panic.                *)
(***************************************************************************)
Whitespace == {" ", "\t", "\n", "\r"}

SinglePunctuation == {"(", ")", ",", ".", "+", "/", "*", ":", ";", "{", "}"}

single_token_type(c) ==
    CASE c = "(" -> "LParen"
      [] c = ")" -> "RParen"
      [] c = "," -> "Comma"
      [] c = "." -> "Dot"
      [] c = "+" -> "Plus"
      [] c = "/" -> "Slash"
      [] c = "*" -> "Star"
      [] c = "|" -> "Pipe"
      [] c = ":" -> "Colon"
      [] c = ";" -> "SemiColon"
      [] c = "{" -> "LBrace"
      [] c = "}" -> "RBrace"

\* 292-297, entered after the pop of line 291.
RECURSIVE skip_multi_line_comment(_)
skip_multi_line_comment(sc) ==
    IF peek(sc) = None THEN sc
    ELSE IF peek(sc) = "#" /\ peek(pop(sc)) = "#" THEN pop(pop(sc))
    ELSE skip_multi_line_comment(pop(sc))

\* 300-304.
RECURSIVE skip_line_comment(_)
skip_line_comment(sc) ==
    IF peek(sc) = None THEN sc
    ELSE IF peek(sc) = "\n" THEN pop(sc)
    ELSE skip_line_comment(pop(sc))

\* No lookahead: the character alone makes the token.
two_char_token_single(sc, second, double, single) == this_as_token(pop(sc), single)

\* 327-374: c is popped, then a following `second` makes the two-character kind.
two_char_token(sc, second, double, single) ==
    IF peek(pop(sc)) = second THEN this_as_token(pop(pop(sc)), double)
    ELSE this_as_token(pop(sc), single)

\* 379-385.
RECURSIVE scan_identifier(_)
scan_identifier(sc) ==
    IF peek(sc) # None /\ (is_alphanumeric(peek(sc)) \/ peek(sc) = "_")
    THEN scan_identifier(pop(sc))
    ELSE sc

\* A keyword list that also holds the word `as`, for the cast.
keyword_type_with_as(identifier) ==
    CASE identifier = <<"d", "e", "f">> -> "Define"
      [] identifier = <<"e", "x", "p", "o", "r", "t">> -> "Export"
      [] identifier = <<"i", "m", "p", "o", "r", "t">> -> "Import"
      [] identifier = <<"e", "x", "t", "e", "r", "n">> -> "Extern"
      [] identifier = <<"m", "u", "t">> -> "Mut"
      [] identifier = <<"p", "r", "i", "v", "a", "t", "e">> -> "Private"
      [] identifier = <<"r", "e", "t", "u", "r", "n">> -> "Return"
      [] identifier = <<"a", "s">> -> "As"
      [] OTHER -> "Identifier"

\* 389-398.
keyword_type(identifier) ==
    CASE identifier = <<"d", "e", "f">> -> "Define"
      [] identifier = <<"e", "x", "p", "o", "r", "t">> -> "Export"
      [] identifier = <<"i", "m", "p", "o", "r", "t">> -> "Import"
      [] identifier = <<"e", "x", "t", "e", "r", "n">> -> "Extern"
      [] identifier = <<"m", "u", "t">> -> "Mut"
      [] identifier = <<"p", "r", "i", "v", "a", "t", "e">> -> "Private"
      [] identifier = <<"r", "e", "t", "u", "r", "n">> -> "Return"
      [] OTHER -> "Identifier"

\* The lexeme's token with a position of no width, at the lexeme's start.
lexeme_token_start(start_pos, end, token_type) ==
    LET lexeme == SubSeq(end.characters, start_pos + 1, end.cursor)
    IN  IF sub_panics(end.line_idx, string_len(lexeme)) THEN LexPanic(end, "overflow")
        ELSE LexSome(end,
                Token(lexeme, token_type,
                      CodePosition(start_pos, start_pos, end.line, end.line,
                                   wrapping_sub(end.line_idx, string_len(lexeme)),
                                   wrapping_sub(end.line_idx, string_len(lexeme)))))

\* The token of the lexeme characters[start_pos..end.cursor] (399-410, 435-446).
lexeme_token(start_pos, end, token_type) ==
    LET lexeme == SubSeq(end.characters, start_pos + 1, end.cursor)
    IN  IF sub_panics(end.line_idx, string_len(lexeme)) THEN LexPanic(end, "overflow")
        ELSE LexSome(end,
                Token(lexeme, token_type,
                      CodePosition(start_pos, end.cursor, end.line, end.line,
                                   wrapping_sub(end.line_idx, string_len(lexeme)),
                                   end.line_idx)))

identifier_token(sc) ==
    lexeme_token(sc.cursor, scan_identifier(sc),
        keyword_type(SubSeq(sc.characters, sc.cursor + 1, scan_identifier(sc).cursor)))

\* Every `.` after a digit is taken into the number.
RECURSIVE scan_number_dots(_, _)
scan_number_dots(sc, is_float) ==
    IF peek(sc) # None /\ is_digit(peek(sc)) THEN scan_number_dots(pop(sc), is_float)
    ELSE IF peek(sc) = "." THEN scan_number_dots(pop(sc), TRUE)
    ELSE [sc |-> sc, is_float |-> is_float]

\* 417-426: the scanner after the number, and whether a `.` was taken.
RECURSIVE scan_number(_, _)
scan_number(sc, is_float) ==
    IF peek(sc) # None /\ is_digit(peek(sc)) THEN scan_number(pop(sc), is_float)
    ELSE IF peek(sc) = "." /\ ~is_float THEN scan_number(pop(sc), TRUE)
    ELSE [sc |-> sc, is_float |-> is_float]

number_token(sc) ==
    LET n == scan_number(sc, FALSE)
    IN  lexeme_token(sc.cursor, n.sc, IF n.is_float THEN "NumberFloat" ELSE "NumberInt")

\* 453-474: the scanner at the closing quote, or at the end of the input.
RECURSIVE scan_string(_)
scan_string(sc) ==
    IF peek(sc) = None \/ peek(sc) = "\"" THEN sc ELSE scan_string(pop(sc))

\* The end of the input closes a string like a quote does.
string_token_lenient(sc) ==
    LET start_pos == pop(sc).cursor
        close == scan_string(pop(sc))
        string == SubSeq(sc.characters, start_pos + 1, close.cursor)
        after == IF peek(close) = None THEN close ELSE pop(close)
    IN  IF sub_panics(after.line_idx, string_len(string))
        THEN LexPanic(after, "overflow")
        ELSE LexSome(after,
                Token(string, "String",
                      CodePosition(start_pos, start_pos, after.line, after.line,
                                   wrapping_sub(after.line_idx, string_len(string)),
                                   after.line_idx)))

\* 450-476; sc is at the opening quote.
string_token(sc) ==
    LET start_pos == pop(sc).cursor
        close == scan_string(pop(sc))
        string == SubSeq(sc.characters, start_pos + 1, close.cursor)
        after == pop(close)
    IN  IF peek(close) = None THEN LexErr(close, new_eof_error)
        ELSE IF sub_panics(after.line_idx, string_len(string))
        THEN LexPanic(after, "overflow")
        ELSE LexSome(after,
                Token(string, "String",
                      CodePosition(start_pos, start_pos, after.line, after.line,
                                   wrapping_sub(after.line_idx, string_len(string)),
                                   after.line_idx)))

unknown_char(sc) ==
    LET p == this_as_codepos2(sc)
    IN  IF p.tag = "Panic" THEN p
        ELSE LexErr(sc, new_unknown_char_error(p.val, peek(sc)))

RECURSIVE tokenizer(_)
tokenizer(sc) ==
    LET current == peek(sc)
    IN  CASE current = None -> LexNone(sc)
          [] current \in Whitespace -> tokenizer(pop(sc))
          [] current = "#" ->
                IF peek(sc) = "#"
                THEN tokenizer(skip_multi_line_comment(pop(sc)))
                ELSE tokenizer(skip_line_comment(sc))
          [] current \in SinglePunctuation ->
                this_as_token(pop(sc), single_token_type(current))
          [] current = "&" -> two_char_token(sc, "&", "Ref", "And")
          [] current = "-" -> two_char_token(sc, ">", "As", "Minus")
          [] current = ">" -> two_char_token(sc, "=", "GreaterEquals", "Greater")
          [] current = "<" -> two_char_token(sc, "=", "LesserEquals", "Lesser")
          [] current = "!" -> two_char_token(sc, "=", "NotEquals", "Exclamation")
          [] current = "=" -> two_char_token(sc, "=", "DoubleEquals", "Equals")
          [] is_alphabetic(current) \/ current = "_" -> identifier_token(sc)
          [] is_digit(current) -> number_token(sc)
          [] current = "\"" -> string_token(sc)
          [] OTHER -> unknown_char(sc)

(***************************************************************************)
(* tokenize (lexer.rs 488-499): the loop over tokenizer, from the scanner  *)
(* sc with the tokens toks pushed so far.                                  *)
(***************************************************************************)
LexOk(sc, toks) == [tag |-> "Ok", sc |-> sc, val |-> toks]

RECURSIVE tokenize_from(_, _)
tokenize_from(sc, toks) ==
    LET token == tokenizer(sc)
    IN  CASE token.tag = "Some" -> tokenize_from(token.sc, Append(toks, token.val))
          [] token.tag = "None" -> LexOk(token.sc, toks)
          [] OTHER -> token

tokenize(string) == tokenize_from(scanner_new(string), <<>>)

(***************************************************************************)
(* Parser (parser.rs).  Parser.tokens are the tokens tokenize returned; a  *)
(* token reference &Token is the token's index in them (0-based, like the  *)
(* cursor).  st is what a rule threads through: the shared cursor and the  *)
(* warnings handed to Parser::warning so far.  Every rule returns Ok (with *)
(* its value), Err (with the CodeError) or a panic, each with st as the    *)
(* rule left it.  A rule of several steps is one operator per step, each   *)
(* taking the outcome of the step before it.                               *)
(***************************************************************************)
tokens == IF tokenized.tag = "Ok" THEN tokenized.val ELSE <<>>

ParserState(p, w) == [pointer |-> p, warnings |-> w]

POk(st, v) == [tag |-> "Ok", st |-> st, val |-> v]
PErr(st, e) == [tag |-> "Err", st |-> st, val |-> e]
PPanic(st, m) == [tag |-> "Panic", st |-> st, val |-> m]

has_token(i) == i >= 0 /\ i < Len(tokens)

token_at(i) == tokens[i + 1]

type_at(i) == IF has_token(i) THEN token_at(i).token_type ELSE None

\* 24-30: the state after advance(); advance() returns the token at st.pointer.
advance(st) ==
    IF has_token(st.pointer) THEN ParserState(st.pointer + 1, st.warnings) ELSE st

\* 82-84 followed by unwrap(): the index of the token before the cursor.
previous_unwrap(st) ==
    IF sub_panics(st.pointer, 1) THEN PPanic(st, "overflow")
    ELSE IF ~has_token(wrapping_sub(st.pointer, 1)) THEN PPanic(st, "unwrap")
    ELSE POk(st, st.pointer - 1)

\* 265-267, where the subtraction does not panic.
is_done(st) == wrapping_sub(st.pointer, 1) = Len(tokens)

\* 259-261, 376-378 and 271-273: missing_token_error(self.previous(pointer).unwrap()).
missing_token(prev) ==
    IF prev.tag # "Ok" THEN prev
    ELSE PErr(prev.st, missing_token_error(token_at(prev.val)))

\* 269-277.
is_done_err(st) ==
    IF sub_panics(st.pointer, 1) THEN PPanic(st, "overflow")
    ELSE IF is_done(st) THEN missing_token(previous_unwrap(st))
    ELSE POk(st, TRUE)

\* 32-41.
match_token(st, token_type) ==
    IF is_done_err(st).tag # "Ok" THEN is_done_err(st)
    ELSE IF type_at(st.pointer) = token_type THEN POk(advance(st), TRUE)
    ELSE POk(st, FALSE)

\* 43-51.
multi_match_token(st, token_types) ==
    IF is_done_err(st).tag # "Ok" THEN is_done_err(st)
    ELSE POk(st, type_at(st.pointer) \in token_types)

\* 53-62.
match_next_token(st, token_type) ==
    IF is_done_err(st).tag # "Ok" THEN is_done_err(st)
    ELSE IF type_at(st.pointer + 1) = token_type THEN POk(advance(st), TRUE)
    ELSE POk(st, FALSE)

\* 74-78: current(pointer).or(previous(pointer)).unwrap(); both are evaluated.
\* The error anchored at the token before the cursor.
unexpected_token_previous(st, expected, note) ==
    IF sub_panics(st.pointer, 1) THEN PPanic(st, "overflow")
    ELSE IF has_token(wrapping_sub(st.pointer, 1))
    THEN PErr(st, new_unexpected_token_error(token_at(st.pointer - 1), expected, note))
    ELSE PPanic(st, "unwrap")

\* The error of consume with the cursor moved past the token it refused.
unexpected_token_skip(st, expected, note) ==
    IF sub_panics(st.pointer, 1) THEN PPanic(st, "overflow")
    ELSE IF has_token(st.pointer)
    THEN PErr(advance(st), new_unexpected_token_error(token_at(st.pointer), expected, note))
    ELSE IF has_token(wrapping_sub(st.pointer, 1))
    THEN PErr(st, new_unexpected_token_error(token_at(st.pointer - 1), expected, note))
    ELSE PPanic(st, "unwrap")

unexpected_token(st, expected, note) ==
    IF sub_panics(st.pointer, 1) THEN PPanic(st, "overflow")
    ELSE IF has_token(st.pointer)
    THEN PErr(st, new_unexpected_token_error(token_at(st.pointer), expected, note))
    ELSE IF has_token(wrapping_sub(st.pointer, 1))
    THEN PErr(st, new_unexpected_token_error(token_at(st.pointer - 1), expected, note))
    ELSE PPanic(st, "unwrap")

\* 66-79: m is match_token(expected); Ok carries the index of the consumed token.
consume_matched(m, expected, note) ==
    IF m.tag # "Ok" THEN m
    ELSE IF m.val THEN previous_unwrap(m.st)
    ELSE unexpected_token(m.st, expected, note)

\* 64-80.
consume(st, expected, note) ==
    IF is_done_err(st).tag # "Ok" THEN is_done_err(st)
    ELSE consume_matched(match_token(st, expected), expected, note)

\* A span that ends at the token under the cursor, whatever sub_off is.
codepos_to_cursor(st, s, sub_off) ==
    IF ~has_token(s) \/ ~has_token(st.pointer) THEN PPanic(st, "unwrap")
    ELSE POk(st, merge(token_at(s).code_position, token_at(st.pointer).code_position))

\* 94-105.
codepos_from_space(st, s, sub_off) ==
    IF ~has_token(s) THEN PPanic(st, "unwrap")
    ELSE IF sub_panics(st.pointer, sub_off) THEN PPanic(st, "overflow")
    ELSE IF ~has_token(wrapping_sub(st.pointer, sub_off)) THEN PPanic(st, "unwrap")
    ELSE POk(st, merge(token_at(s).code_position,
                       token_at(st.pointer - sub_off).code_position))

CodeWarning(position, code_warn_type, title, footer, notes) ==
    [position |-> position, code_warn_type |-> code_warn_type,
     title |-> title, footer |-> footer, notes |-> notes]

new_unnecessary_code(position, extra) ==
    CodeWarning(position, "UnnecessaryCode", "Unnecessary code",
                "This code does not change the outcome",
                IF extra # None THEN <<extra>> ELSE <<>>)

\* 90-92: the warning is rendered at once.
warning(st, code_warning) ==
    ParserState(st.pointer, Append(st.warnings, code_warning))

Node1(node, token) == [node |-> node, token |-> token]

\* 383-387: the node around the consumed identifier t.
type_node(t) == IF t.tag # "Ok" THEN t ELSE POk(t.st, Node1("Type", t.val))

\* 382-388.
parse_type(st) == type_node(consume(st, "Identifier", None))

RECURSIVE parse_expression(_)
RECURSIVE parse_function_call_loop(_, _, _)

FunctionCall(name, paras) == [node |-> "FunctionCall", name |-> name, args |-> paras]

\* 214: the comma c consumed after an argument.
call_comma(c, name, paras) ==
    IF c.tag # "Ok" THEN c ELSE parse_function_call_loop(c.st, name, paras)

\* 211-214: m is match_token(RParen) after an argument.
call_rparen(m, name, paras) ==
    IF m.tag # "Ok" THEN m
    ELSE IF m.val THEN POk(m.st, FunctionCall(name, paras))
    ELSE call_comma(consume(m.st, "Comma", "Add a comma"), name, paras)

\* 210: the argument e is pushed.
call_argument(e, name, paras) ==
    IF e.tag # "Ok" THEN e
    ELSE call_rparen(match_token(e.st, "RParen"), name, Append(paras, e.val))

\* 209-216, one turn of the loop.
parse_function_call_loop(st, name, paras) ==
    IF ~has_token(st.pointer) THEN POk(st, FunctionCall(name, paras))
    ELSE call_argument(parse_expression(st), name, paras)

\* 207-208.
call_lparen(lp, name) ==
    IF lp.tag # "Ok" THEN lp ELSE parse_function_call_loop(lp.st, name, <<>>)

\* 206-207.
call_name(name) ==
    IF name.tag # "Ok" THEN name
    ELSE call_lparen(consume(name.st, "LParen", None), name.val)

\* 205-217.
parse_function_call(st) == call_name(previous_unwrap(st))

\* 350-354: m is match_next_token(LParen) after the identifier token.
primary_identifier(m, token) ==
    IF m.tag # "Ok" THEN m
    ELSE IF m.val THEN parse_function_call(m.st)
    ELSE POk(m.st, Node1("Identifier", token))

\* 359-364: m is match_token(RParen) after the expression e.
primary_rparen(m, e) ==
    IF m.tag # "Ok" THEN m
    ELSE IF m.val THEN POk(m.st, e)
    ELSE PPanic(m.st, "placeholder")

\* 358-359.
primary_paren(e) ==
    IF e.tag # "Ok" THEN e ELSE primary_rparen(match_token(e.st, "RParen"), e.val)

\* 366-373.
primary_unexpected(prev) ==
    IF prev.tag # "Ok" THEN prev
    ELSE PErr(prev.st, new_unexpected_token_error(
                  token_at(prev.val), "Expression",
                  "You may add a literal (number), string, variable, or a term here"))

\* 347-374: token is what advance() returned, next the state it left.
primary_token(next, token) ==
    CASE type_at(token) \in {"NumberInt", "NumberFloat"} -> POk(next, Node1("Literal", token))
      [] type_at(token) = "Identifier" ->
            primary_identifier(match_next_token(next, "LParen"), token)
      [] type_at(token) = "String" -> POk(next, Node1("String", token))
      [] type_at(token) = "LParen" -> primary_paren(parse_expression(next))
      [] OTHER -> primary_unexpected(previous_unwrap(next))

\* 345-380.
parse_primary(st) ==
    IF ~has_token(st.pointer) THEN missing_token(previous_unwrap(st))
    ELSE primary_token(advance(st), st.pointer)

BinaryOp(lhs, op, rhs) == [node |-> "BinaryOp", lhs |-> lhs, op |-> op, rhs |-> rhs]

RECURSIVE parse_factor_loop(_, _)

\* 336-337.
factor_right(right, node, op) ==
    IF right.tag # "Ok" THEN right
    ELSE parse_factor_loop(right.st, BinaryOp(node, op, right.val))

\* 332-341, one turn of the loop, with node parsed so far.
parse_factor_loop(st, node) ==
    IF type_at(st.pointer) \in {"Star", "Slash"}
    THEN factor_right(parse_primary(advance(st)), node, st.pointer)
    ELSE POk(st, node)

\* 330.
factor_left(node) ==
    IF node.tag # "Ok" THEN node ELSE parse_factor_loop(node.st, node.val)

\* 329-343.
parse_factor(st) == factor_left(parse_primary(st))

RECURSIVE parse_term_loop(_, _)

\* 320-321.
term_right(right, node, op) ==
    IF right.tag # "Ok" THEN right
    ELSE parse_term_loop(right.st, BinaryOp(node, op, right.val))

\* A term loop that takes `*` and `/` at the level of `+` and `-`.
parse_term_loop_flat(st, node) ==
    IF type_at(st.pointer) \in {"Plus", "Minus", "Star", "Slash"}
    THEN term_right(parse_primary(advance(st)), node, st.pointer)
    ELSE POk(st, node)

\* 316-325, one turn of the loop, with node parsed so far.
parse_term_loop(st, node) ==
    IF type_at(st.pointer) \in {"Plus", "Minus"}
    THEN term_right(parse_factor(advance(st)), node, st.pointer)
    ELSE POk(st, node)

\* 314.
term_left(node) ==
    IF node.tag # "Ok" THEN node ELSE parse_term_loop(node.st, node.val)

\* 313-327.
parse_term(st) == term_left(parse_factor(st))

CastExpr(expr, type) == [node |-> "CastExpr", expr |-> expr, type |-> type]

\* A cast that binds to the last operand of term alone.
expression_cast_operand(t, term) ==
    IF t.tag # "Ok" THEN t
    ELSE IF term.node = "BinaryOp"
    THEN POk(t.st, BinaryOp(term.lhs, term.op, CastExpr(term.rhs, t.val)))
    ELSE POk(t.st, CastExpr(term, t.val))

\* 304-307: the cast of term to the type t.
expression_cast(t, term) ==
    IF t.tag # "Ok" THEN t ELSE POk(t.st, CastExpr(term, t.val))

\* 303-310: m is match_token(As) after term.
expression_as(m, term) ==
    IF m.tag # "Ok" THEN m
    ELSE IF m.val THEN expression_cast(parse_type(m.st), term)
    ELSE POk(m.st, term)

\* 302-303.
expression_term(term) ==
    IF term.tag # "Ok" THEN term ELSE expression_as(match_token(term.st, "As"), term.val)

\* 301-311.
parse_expression(st) == expression_term(parse_term(st))

\* 221.
return_expression(e) ==
    IF e.tag # "Ok" THEN e ELSE POk(e.st, [node |-> "Return", expr |-> e.val])

\* 220-221.
return_keyword(r) ==
    IF r.tag # "Ok" THEN r ELSE return_expression(parse_expression(r.st))

\* 219-222.
parse_return(st) == return_keyword(consume(st, "Return", None))

\* 235-239 and 245-249: the warning at pos is rendered, then res is returned.
statement_warning(res, pos) ==
    IF pos.tag # "Ok" THEN pos
    ELSE [res EXCEPT !.st = warning(res.st, new_unnecessary_code(pos.val, None))]

\* 234-236 and 244-246: res is not inspected before the warning.
statement_expression(res, a) ==
    IF res.tag = "Panic" THEN res
    ELSE statement_warning(res, codepos_from_space(res.st, a, 1))

\* 233-239 and 243-249.
expression_statement(st) == statement_expression(parse_expression(st), st.pointer)

\* 230-240: m is match_next_token(LParen).
statement_identifier(m) ==
    IF m.tag # "Ok" THEN m
    ELSE IF m.val THEN parse_function_call(m.st)
    ELSE expression_statement(m.st)

\* 224-263.
parse_statement(st) ==
    IF ~has_token(st.pointer) THEN missing_token(previous_unwrap(st))
    ELSE CASE type_at(st.pointer) = "Identifier" ->
                  statement_identifier(match_next_token(st, "LParen"))
           [] type_at(st.pointer) \in {"NumberInt", "NumberFloat"} -> expression_statement(st)
           [] type_at(st.pointer) = "Return" -> parse_return(st)
           [] OTHER ->
                  PErr(st, new_unexpected_token_error(token_at(st.pointer), "Statement",
                               "Expected some sort of statement"))

RECURSIVE parse_block_loop(_, _)

\* 196-202: rb is the consumed RBrace.
block_rbrace(rb, stmts) == IF rb.tag # "Ok" THEN rb ELSE POk(rb.st, stmts)

\* 196-202.
block_end(st, stmts) ==
    block_rbrace(consume(st, "RBrace", "You may be missing a semi colon"), stmts)

\* The loop goes on after a statement whether or not a `;` follows it.
block_semi_optional(semi, stmts) ==
    IF semi.tag # "Ok" THEN semi ELSE parse_block_loop(semi.st, stmts)

\* 191-193: semi is match_token(SemiColon) after a statement.
block_semi(semi, stmts) ==
    IF semi.tag # "Ok" THEN semi
    ELSE IF semi.val THEN parse_block_loop(semi.st, stmts)
    ELSE block_end(semi.st, stmts)

\* 188-191.
block_statement(stmt, stmts) ==
    IF stmt.tag # "Ok" THEN stmt
    ELSE block_semi(match_token(stmt.st, "SemiColon"), Append(stmts, stmt.val))

\* 183-194, one turn of the loop.
parse_block_loop(st, stmts) ==
    IF ~has_token(st.pointer) \/ type_at(st.pointer) = "RBrace" THEN block_end(st, stmts)
    ELSE block_statement(parse_statement(st), stmts)

\* 179-181.
block_lbrace(lb) == IF lb.tag # "Ok" THEN lb ELSE parse_block_loop(lb.st, <<>>)

\* 178-203.
parse_block(st) == block_lbrace(consume(st, "LBrace", None))

RECURSIVE parse_arguments_loop(_, _)

\* An argument loop that demands a comma after every argument.
arguments_comma_required(comma, arguments) ==
    IF comma.tag # "Ok" THEN comma
    ELSE IF comma.val THEN parse_arguments_loop(comma.st, arguments)
    ELSE unexpected_token(comma.st, "Comma", None)

\* 293-295: comma is match_token(Comma) after an argument.
arguments_comma(comma, arguments) ==
    IF comma.tag # "Ok" THEN comma
    ELSE IF comma.val THEN parse_arguments_loop(comma.st, arguments)
    ELSE POk(comma.st, arguments)

\* 289-293.
arguments_type(arg_type, name, arguments) ==
    IF arg_type.tag # "Ok" THEN arg_type
    ELSE arguments_comma(match_token(arg_type.st, "Comma"),
                         Append(arguments, <<name, arg_type.val>>))

\* 288-289.
arguments_colon(colon, name, arguments) ==
    IF colon.tag # "Ok" THEN colon
    ELSE arguments_type(parse_type(colon.st), name, arguments)

\* 287-288.
arguments_name(name, arguments) ==
    IF name.tag # "Ok" THEN name
    ELSE arguments_colon(consume(name.st, "Colon", None), name.val, arguments)

\* 282-296, one turn of the loop.
parse_arguments_loop(st, arguments) ==
    IF ~has_token(st.pointer) \/ type_at(st.pointer) = "RParen" THEN POk(st, arguments)
    ELSE arguments_name(consume(st, "Identifier", None), arguments)

\* 279-299.
parse_arguments(st) == parse_arguments_loop(st, <<>>)

\* CodeError::function_overloaded(token), called at 153; comp_errors.rs does not
\* hold it.  Like every constructor there that takes a token, the error is
\* positioned at that token.
function_overloaded(token) ==
    CodeError(token.code_position, "FunctionOverloaded",
              "Function modifiers may not be combined", <<>>, <<>>)

FunctionDef(name, fmod, return_type, args, body) ==
    [node |-> "FunctionDef", name |-> name, mode |-> fmod, return_type |-> return_type,
     args |-> args, body |-> body]

\* 167-175.
function_body(body, name, fmod, return_type, args) ==
    IF body.tag # "Ok" THEN body
    ELSE POk(body.st, FunctionDef(name, fmod, return_type, args, body.val))

\* 165-167.
function_return_type(return_type, name, fmod, args) ==
    IF return_type.tag # "Ok" THEN return_type
    ELSE function_body(parse_block(return_type.st), name, fmod, return_type.val, args)

\* 164-165.
function_colon(colon, name, fmod, args) ==
    IF colon.tag # "Ok" THEN colon
    ELSE function_return_type(parse_type(colon.st), name, fmod, args)

\* 162-164.
function_rparen(rp, name, fmod, args) ==
    IF rp.tag # "Ok" THEN rp
    ELSE function_colon(consume(rp.st, "Colon", None), name, fmod, args)

\* 160-162.
function_args(args, name, fmod) ==
    IF args.tag # "Ok" THEN args
    ELSE function_rparen(consume(args.st, "RParen", None), name, fmod, args.val)

\* 158-160.
function_lparen(lp, name, fmod) ==
    IF lp.tag # "Ok" THEN lp ELSE function_args(parse_arguments(lp.st), name, fmod)

\* 156-158.
function_name(name, fmod) ==
    IF name.tag # "Ok" THEN name
    ELSE function_lparen(consume(name.st, "LParen", None), name.val, fmod)

\* 153: the error is built from self.previous(pointer).unwrap().
function_overload(prev) ==
    IF prev.tag # "Ok" THEN prev
    ELSE PErr(prev.st, function_overloaded(token_at(prev.val)))

\* 152-156: multi is multi_match_token of the three modifiers.
function_modifiers(multi, fmod) ==
    IF multi.tag # "Ok" THEN multi
    ELSE IF multi.val THEN function_overload(previous_unwrap(multi.st))
    ELSE function_name(consume(multi.st, "Identifier", None), fmod)

\* 152.
function_fmod(fmod) ==
    IF fmod.tag # "Ok" THEN fmod
    ELSE function_modifiers(
             multi_match_token(fmod.st, {"Extern", "Export", "Private"}), fmod.val)

\* 149-150.
mode_extern(extern) ==
    IF extern.tag # "Ok" THEN extern
    ELSE POk(extern.st, IF extern.val THEN "Extern" ELSE "Default")

\* 148-149.
mode_private(private) ==
    IF private.tag # "Ok" THEN private
    ELSE IF private.val THEN POk(private.st, "Private")
    ELSE mode_extern(match_token(private.st, "Extern"))

\* 147-148.
mode_export(export) ==
    IF export.tag # "Ok" THEN export
    ELSE IF export.val THEN POk(export.st, "Export")
    ELSE mode_private(match_token(export.st, "Private"))

\* 147-150: the modifier, with the state after it.
function_mode(st) == mode_export(match_token(st, "Export"))

\* 146-176.
parse_function(st) == function_fmod(function_mode(st))

\* 140-143.
import_module_name(module_name) ==
    IF module_name.tag # "Ok" THEN module_name
    ELSE POk(module_name.st, Node1("Import", module_name.val))

\* 137-140.
import_keyword(import) ==
    IF import.tag # "Ok" THEN import
    ELSE import_module_name(consume(import.st, "Identifier", None))

\* 135-144.
parse_import(st) == import_keyword(consume(st, "Import", None))

(***************************************************************************)
(* The compile job (main.rs 18-46): compile_job tokenizes, parses with a   *)
(* cursor starting at 0, and _compile renders the error compile_job        *)
(* returned.  Parser::warning renders a warning when it is emitted, so the *)
(* warnings of a rule are appended to printed by the step that runs it.    *)
(***************************************************************************)
Running == [tag |-> "Running"]

Rendered(level, diagnostic) == [level |-> level, diagnostic |-> diagnostic]

RenderedWarnings(ws) == [i \in 1..Len(ws) |-> Rendered("Warning", ws[i])]

InitWith(sources) ==
    /\ overflow_checks \in BOOLEAN
    /\ file_content \in sources
    /\ scanner = scanner_new(file_content)
    /\ tokenized = Running
    /\ pointer = 0
    /\ statements = <<>>
    /\ printed = <<>>
    /\ result = Running
    /\ pc = "tokenize"

\* main.rs 19: tokenize(file_manager.get_content())?
Tokenize ==
    /\ pc = "tokenize"
    /\ LET r == tokenize(file_content)
       IN  /\ scanner' = r.sc
           /\ tokenized' = [tag |-> r.tag, val |-> r.val]
           /\ result' = IF r.tag = "Ok" THEN result ELSE [tag |-> r.tag, val |-> r.val]
           /\ pc' = CASE r.tag = "Ok" -> "parse"
                      [] r.tag = "Err" -> "visualize_error"
                      [] OTHER -> "panicked"
    /\ UNCHANGED <<overflow_checks, file_content, pointer, statements, printed>>

\* What a turn of the loop of Parser::parse (parser.rs 110-129) leaves, given the
\* outcome r of the rule it ran.
ParseTurn(r) ==
    /\ pointer' = r.st.pointer
    /\ printed' = printed \o RenderedWarnings(r.st.warnings)
    /\ statements' = IF r.tag = "Ok" THEN Append(statements, r.val) ELSE statements
    /\ result' = IF r.tag = "Ok" THEN result ELSE [tag |-> r.tag, val |-> r.val]
    /\ pc' = CASE r.tag = "Ok" -> "parse"
               [] r.tag = "Err" -> "visualize_error"
               [] OTHER -> "panicked"
    /\ UNCHANGED <<overflow_checks, file_content, scanner, tokenized>>

\* parser.rs 113-117.
ParseDefine ==
    /\ pc = "parse"
    /\ type_at(pointer) = "Define"
    /\ ParseTurn(parse_function(advance(ParserState(pointer, <<>>))))

\* parser.rs 120-123.
ParseImport ==
    /\ pc = "parse"
    /\ type_at(pointer) = "Import"
    /\ ParseTurn(parse_import(ParserState(pointer, <<>>)))

\* parser.rs 125-127.
ParsePlaceholder ==
    /\ pc = "parse"
    /\ has_token(pointer)
    /\ type_at(pointer) \notin {"Define", "Import"}
    /\ ParseTurn(PPanic(ParserState(pointer, <<>>), "placeholder"))

\* parser.rs 131, then main.rs 24-28: the job returns Ok(()).
ParseReturn ==
    /\ pc = "parse"
    /\ ~has_token(pointer)
    /\ result' = [tag |-> "Ok", val |-> statements]
    /\ pc' = "done"
    /\ UNCHANGED <<overflow_checks, file_content, scanner, tokenized, pointer, statements,
                   printed>>

\* main.rs 40-43.
VisualizeError ==
    /\ pc = "visualize_error"
    /\ printed' = Append(printed, Rendered("Error", result.val))
    /\ pc' = "done"
    /\ UNCHANGED <<overflow_checks, file_content, scanner, tokenized, pointer, statements,
                   result>>

Next ==
    \/ Tokenize
    \/ ParseDefine
    \/ ParseImport
    \/ ParsePlaceholder
    \/ ParseReturn
    \/ VisualizeError

(***************************************************************************)
(* Source texts.  A text is the concatenation of a bounded number of       *)
(* pieces, each a character or a word.                                     *)
(***************************************************************************)
SeqsUpTo(S, n) == UNION {[1..k -> S] : k \in 0..n}

RECURSIVE Flatten(_)
Flatten(ps) == IF ps = <<>> THEN <<>> ELSE Head(ps) \o Flatten(Tail(ps))

Texts(pieces, n) == {Flatten(ps) : ps \in SeqsUpTo(pieces, n)}

W_def == <<"d", "e", "f">>
W_export == <<"e", "x", "p", "o", "r", "t">>
W_import == <<"i", "m", "p", "o", "r", "t">>
W_extern == <<"e", "x", "t", "e", "r", "n">>
W_mut == <<"m", "u", "t">>
W_private == <<"p", "r", "i", "v", "a", "t", "e">>
W_return == <<"r", "e", "t", "u", "r", "n">>
W_as == <<"a", "s">>

Keywords == {W_def, W_export, W_import, W_extern, W_mut, W_private, W_return}

LexChars ==
    {<<"@">>, <<"#">>, <<"\n">>, <<" ">>, <<"x">>, <<"1">>, <<".">>, <<"\"">>,
     <<";">>, <<"-">>, <<">">>, <<"U+00E9">>}

OperatorChars == {<<"&">>, <<"-">>, <<">">>, <<"<">>, <<"!">>, <<"=">>}

NumberChars == {<<"1">>, <<"2">>, <<".">>}

LexSources ==
    Texts(LexChars, MaxLen) \cup Texts(OperatorChars, MaxOpLen)
    \cup Texts(NumberChars, MaxNumberLen) \cup Keywords \cup {W_as}

LexInit == InitWith(LexSources)

LexSpec == LexInit /\ [][Next]_vars

\* `def f():t{`, the head of a function whose body follows.
FunctionHead == W_def \o <<" ", "f", "(", ")", ":", "t", "{">>

TopWords == {W_def \o <<" ">>, W_import \o <<" ">>, <<"x", " ">>, <<"{">>, <<"}">>}

ModifierWords == {W_export \o <<" ">>, W_private \o <<" ">>, W_extern \o <<" ">>}

StatementPieces == {<<"x">>, <<"1">>, <<";">>, <<"}">>, W_return \o <<" ">>}

ArithmeticPieces == {<<"x">>, <<"+">>, <<"*">>, <<"-", ">">>}

CallPieces == {<<"x">>, <<"+">>, <<"(">>, <<")">>, <<",">>}

Operands == {<<"x">>, <<"1">>}

ArithmeticOperators == {<<"+">>, <<"-">>, <<"*">>, <<"/">>}

\* <operand> <operator> <operand> -> t
BinaryCastTexts ==
    {a \o op \o b \o <<"-", ">", "t">> :
        a \in Operands, op \in ArithmeticOperators, b \in Operands}

CastPieces ==
    {<<"x">>, <<" ">> \o W_as \o <<" ">>, <<" ", "-", ">", " ">>, <<"i", "6", "4">>}

\* def <modifiers> f():t{}
ModifierSources ==
    {W_def \o <<" ">> \o m \o <<"f", "(", ")", ":", "t", "{", "}">> :
        m \in Texts(ModifierWords, MaxModifiers)}

\* def f():t{ <body>
StatementSources == {FunctionHead \o b : b \in Texts(StatementPieces, MaxBody)}

\* def f():t{return <expression>}
ReturnSource(expression) == FunctionHead \o W_return \o <<" ">> \o expression \o <<"}">>

ReturnSources(expressions) == {ReturnSource(e) : e \in expressions}

\* 1 <operator> 2 <operator> 3
TernaryTexts ==
    {<<"1">> \o op1 \o <<"2">> \o op2 \o <<"3">> :
        op1 \in ArithmeticOperators, op2 \in ArithmeticOperators}

\* def f():t{ <body> }
BlockSources(bodies) == {FunctionHead \o b \o <<"}">> : b \in bodies}

SimpleStatements == {<<"x">>, <<"1">>, W_return \o <<" ", "x">>}

\* <statement> <`;` or a space> <statement> <`;` or nothing>
TwoStatementTexts ==
    {s1 \o sep \o s2 \o last :
        s1 \in SimpleStatements, sep \in {<<";">>, <<" ">>},
        s2 \in SimpleStatements, last \in {<<>>, <<";">>}}

ArgumentPieces == {<<"x">>, <<":">>, <<",">>, <<"t">>}

\* def f( <arguments> ):t{}
ArgumentSources ==
    {W_def \o <<" ", "f", "(">> \o a \o <<")", ":", "t", "{", "}">> :
        a \in Texts(ArgumentPieces, MaxArgs)}

\* def f(x: i32): i32 { return x; }
ExampleFunction ==
    W_def \o <<" ", "f", "(", "x", ":", " ", "i", "3", "2", ")", ":", " ", "i", "3", "2",
               " ", "{", " ">> \o W_return \o <<" ", "x", ";", " ", "}">>

\* x(1) and x+(1)
CallExpressionTexts == {<<"x", "(", "1", ")">>, <<"x", "+", "(", "1", ")">>}

\* "s" and (1), and 1 + 1 with a line break before the operator
ExpressionStatementTexts ==
    {<<"\"", "s", "\"">>, <<"(", "1", ")">>, <<"1", "\n", "+", "1">>}

Sources ==
    Texts(TopWords, MaxTop) \cup ModifierSources \cup StatementSources
    \cup ReturnSources(Texts(ArithmeticPieces, MaxExpr))
    \cup ReturnSources(Texts(CallPieces, MaxCall))
    \cup ReturnSources(Texts(CastPieces, MaxCast))
    \cup ReturnSources(BinaryCastTexts)
    \cup ReturnSources(TernaryTexts)
    \cup ReturnSources(CallExpressionTexts)
    \cup BlockSources(Texts(CallPieces, MaxCall))
    \cup BlockSources(TwoStatementTexts)
    \cup BlockSources(ExpressionStatementTexts)
    \cup ArgumentSources
    \cup {ExampleFunction}

Init == InitWith(Sources)

Spec == Init /\ [][Next]_vars

\* The sources on which every rule is tried from every position.
CursorSources ==
    Texts(TopWords, MaxTop) \cup ModifierSources \cup ArgumentSources
    \cup BlockSources(Texts(CallPieces, MaxCall))
    \cup BlockSources(TwoStatementTexts)
    \cup ReturnSources(TernaryTexts)
    \cup ReturnSources(CallExpressionTexts)
    \cup {ExampleFunction}

CursorInit == InitWith(CursorSources)

CursorSpec == CursorInit /\ [][Next]_vars

(***************************************************************************)
(* Properties.  Positions are compared with the place of a character in    *)
(* the source text: line_of and column_of count from the text itself.      *)
(***************************************************************************)
Tokenized == pc # "tokenize"

\* The parse of the whole file has ended: by a result, an error or a panic.
Parsed == pc \in {"visualize_error", "done", "panicked"} /\ tokenized.tag = "Ok"

\* The 0-based line of the character at 0-based index i of string.
line_of(string, i) == Cardinality({j \in 1..i : string[j] = "\n"})

\* The 0-based column of the character at 0-based index i of string.
column_of(string, i) ==
    LET newlines == {j \in 1..i : string[j] = "\n"}
    IN  IF newlines = {} THEN i
        ELSE i - (CHOOSE j \in newlines : \A k \in newlines : k <= j)

token_kinds == [i \in 1..Len(tokens) |-> tokens[i].token_type]

\* What tokenizing gave, without the positions: the kinds and the contents.
lexemes(r) ==
    IF r.tag = "Ok"
    THEN [tag |-> "Ok",
          val |-> [i \in 1..Len(r.val) |-> <<r.val[i].token_type, r.val[i].content>>]]
    ELSE [tag |-> r.tag, val |-> <<>>]

\* The text after the first newline of string (nothing, where there is none).
after_newline(string) ==
    LET newlines == {j \in 1..Len(string) : string[j] = "\n"}
    IN  IF newlines = {} THEN <<>>
        ELSE SubSeq(string, (CHOOSE j \in newlines : \A k \in newlines : j <= k) + 1,
                    Len(string))

\* C1: tokenize is fail-fast: for every source text it returns either the whole
\* token sequence or the first lexical CodeError, and an unknown-character error
\* names the character the scanner stopped at, none after it.
C1_TokenizeFailFast ==
    Tokenized =>
        /\ tokenized.tag \in {"Ok", "Err"}
        /\ (tokenized.tag = "Err" /\ tokenized.val.code_error_type = "LexerUnknownChar") =>
              tokenized.val.footer = <<peek(scanner)>>

\* C2: parse from cursor 0 returns the top-level nodes or a CodeError; no token
\* sequence reaches a panic.
C2_ParseReturns == Parsed => result.tag \in {"Ok", "Err"}

\* C3: an unknown character is reported as LexerUnknownChar at exactly that
\* character: its line, and the columns [column, column + 1).
C3_UnknownCharPosition ==
    (Tokenized /\ tokenized.tag = "Err"
               /\ tokenized.val.code_error_type = "LexerUnknownChar") =>
        LET position == tokenized.val.position
            failing == scanner.cursor
        IN  /\ position.line_start = line_of(file_content, failing)
            /\ position.line_end = position.line_start
            /\ position.line_idx_start = column_of(file_content, failing)
            /\ position.line_idx_end = position.line_idx_start + 1

\* Token t's content is the source slice [idx_start, idx_end), and its line and
\* columns cover exactly those characters.
bounds_lexeme(t) ==
    LET position == t.code_position
    IN  /\ position.idx_start <= position.idx_end
        /\ position.idx_end <= Len(file_content)
        /\ SubSeq(file_content, position.idx_start + 1, position.idx_end) = t.content
        /\ position.line_start = line_of(file_content, position.idx_start)
        /\ position.line_idx_start = column_of(file_content, position.idx_start)
        /\ position.line_idx_end = position.line_idx_start + Len(t.content)

\* C4: every token tokenize produces, of every kind, has the text of its lexeme
\* as content and a position that bounds exactly that text.
C4_TokensBoundTheirLexeme ==
    (Tokenized /\ tokenized.tag = "Ok") =>
        \A i \in 1..Len(tokens) : bounds_lexeme(tokens[i])

\* C5: a single `#` opens a line comment: nothing up to the next newline is a
\* token, and the text after that newline is tokenized as it is on its own.
C5_LineComment ==
    (/\ Tokenized
     /\ Len(file_content) >= 1
     /\ file_content[1] = "#"
     /\ (Len(file_content) >= 2 => file_content[2] # "#")
     /\ tokenize(after_newline(file_content)).tag = "Ok") =>
        lexemes(tokenized) = lexemes(tokenize(after_newline(file_content)))

\* C6: `##` opens a multi-line comment that only a later `##`, not overlapping
\* the opening pair, closes: without one nothing after the opening is a token,
\* and with one the text after the first of them is tokenized as on its own.
C6_MultiLineComment ==
    (/\ Tokenized
     /\ Len(file_content) >= 2
     /\ file_content[1] = "#"
     /\ file_content[2] = "#") =>
        LET closing == {k \in 3..(Len(file_content) - 1) :
                            file_content[k] = "#" /\ file_content[k + 1] = "#"}
            first == CHOOSE k \in closing : \A j \in closing : k <= j
            rest == SubSeq(file_content, first + 2, Len(file_content))
        IN  IF closing = {} THEN tokenized.tag = "Ok" /\ tokenized.val = <<>>
            ELSE tokenize(rest).tag = "Ok" => lexemes(tokenized) = lexemes(tokenize(rest))

\* The kinds of `def f(): t {`.
FunctionHeadKinds ==
    <<"Define", "Identifier", "LParen", "RParen", "Colon", "Identifier", "LBrace">>

\* The kinds of function bodies that lack nothing but the closing `}`.
UnclosedBodies ==
    {<<>>} \cup
    {<<"Return", e>> \o semi :
        e \in {"Identifier", "NumberInt"}, semi \in {<<>>, <<"SemiColon">>}}

\* C7: a block whose `}` is missing because the tokens end fails with
\* MissingTokenError, positioned at the last token consumed.
C7_MissingClosingBrace ==
    (Parsed /\ \E body \in UnclosedBodies : token_kinds = FunctionHeadKinds \o body) =>
        /\ result.tag = "Err"
        /\ result.val.code_error_type = "MissingTokenError"
        /\ result.val.position = tokens[Len(tokens)].code_position

Modifiers == {"Export", "Private", "Extern"}

\* C8: a second modifier right after the first is a fatal error positioned at the
\* second modifier, and no FunctionDef is produced; without a modifier the mode of
\* a function is Default, with one modifier it is that modifier's mode.
C8_ModifiersNotCombined ==
    (Parsed /\ type_at(0) = "Define") =>
        /\ (type_at(1) \in Modifiers /\ type_at(2) \in Modifiers) =>
              /\ result.tag = "Err"
              /\ result.val.position = token_at(2).code_position
              /\ statements = <<>>
        /\ (statements # <<>> /\ statements[1].node = "FunctionDef") =>
              statements[1].mode =
                  IF type_at(1) \in Modifiers THEN type_at(1) ELSE "Default"

\* `x as i64` and `x -> i64`.
AsWordCast == <<"x", " ", "a", "s", " ", "i", "6", "4">>
ArrowCast == <<"x", " ", "-", ">", " ", "i", "6", "4">>

\* The only statement of the only function parsed.
only_statement == statements[1].body[1]

\* expr is CastExpr(Identifier(x), Type(i64)).
casts_x_to_i64(expr) ==
    /\ expr.node = "CastExpr"
    /\ expr.expr.node = "Identifier"
    /\ token_at(expr.expr.token).content = <<"x">>
    /\ expr.type.node = "Type"
    /\ token_at(expr.type.token).content = <<"i", "6", "4">>

OperandKinds == {"Identifier", "NumberInt", "NumberFloat"}

ArithmeticKinds == {"Plus", "Minus", "Star", "Slash"}

\* The kinds of `def f(): t { return e1 op e2 -> T }`; e1 is token 8, T token 12.
BinaryCastKinds ==
    {FunctionHeadKinds \o <<"Return", e1, op, e2, "As", "Identifier", "RBrace">> :
        e1 \in OperandKinds, op \in ArithmeticKinds, e2 \in OperandKinds}

\* The node parse_primary makes of the operand token i.
operand_node(i) ==
    Node1(IF type_at(i) = "Identifier" THEN "Identifier" ELSE "Literal", i)

\* C10: the cast binds looser than every arithmetic operator: e1 op e2 As T
\* parses to CastExpr(BinaryOp(e1, op, e2), Type(T)).
C10_CastBindsLoosest ==
    (Parsed /\ token_kinds \in BinaryCastKinds) =>
        /\ pc = "done"
        /\ Len(statements) = 1
        /\ statements[1].body =
              <<[node |-> "Return",
                 expr |-> CastExpr(BinaryOp(operand_node(8), 9, operand_node(10)),
                                   Node1("Type", 12))]>>

\* `1 + 1 -> t` has been parsed to the end.
C10_SumCastParsed ==
    /\ pc = "done"
    /\ token_kinds = FunctionHeadKinds \o
          <<"Return", "NumberInt", "Plus", "NumberInt", "As", "Identifier", "RBrace">>
    /\ only_statement.expr.node = "CastExpr"

NumberKinds == {"NumberInt", "NumberFloat"}

\* The kinds of `def f(): t { return n1 op1 n2 op2 n3 }`; n1 is token 8.
TernaryKinds ==
    {FunctionHeadKinds \o <<"Return", n1, op1, n2, op2, n3, "RBrace">> :
        n1 \in NumberKinds, op1 \in ArithmeticKinds, n2 \in NumberKinds,
        op2 \in ArithmeticKinds, n3 \in NumberKinds}

Literal(i) == Node1("Literal", i)

\* C11: `*` and `/` bind tighter than `+` and `-`, and operators of one level
\* associate to the left: n1 op1 n2 op2 n3 groups to the right only when op2 is
\* `*` or `/` and op1 is `+` or `-`.
C11_PrecedenceAndAssociativity ==
    (Parsed /\ token_kinds \in TernaryKinds) =>
        /\ pc = "done"
        /\ Len(statements) = 1
        /\ Len(statements[1].body) = 1
        /\ only_statement.node = "Return"
        /\ only_statement.expr =
              IF type_at(11) \in {"Star", "Slash"} /\ type_at(9) \in {"Plus", "Minus"}
              THEN BinaryOp(Literal(8), 9, BinaryOp(Literal(10), 11, Literal(12)))
              ELSE BinaryOp(BinaryOp(Literal(8), 9, Literal(10)), 11, Literal(12))

\* `1 + 2 * 3` has been parsed to the end.
C11_SumOfProductParsed ==
    /\ pc = "done"
    /\ token_kinds \in TernaryKinds
    /\ type_at(9) = "Plus"
    /\ type_at(11) = "Star"
    /\ only_statement.expr.rhs.node = "BinaryOp"

W_i32 == <<"i", "3", "2">>

\* The kinds and contents of the tokens of `def f(x: i32): i32 { return x; }`.
ExampleLexemes ==
    <<<<"Define", W_def>>, <<"Identifier", <<"f">>>>, <<"LParen", <<"(">>>>,
      <<"Identifier", <<"x">>>>, <<"Colon", <<":">>>>, <<"Identifier", W_i32>>,
      <<"RParen", <<")">>>>, <<"Colon", <<":">>>>, <<"Identifier", W_i32>>,
      <<"LBrace", <<"{">>>>, <<"Return", W_return>>, <<"Identifier", <<"x">>>>,
      <<"SemiColon", <<";">>>>, <<"RBrace", <<"}">>>>>>

\* C12: `def f(x: i32): i32 { return x; }` tokenizes to its fourteen tokens and
\* parses to one FunctionDef: name f, mode Default, the argument (x, i32),
\* return type i32, body [Return(Identifier(x))], the cursor at the end.
C12_ExampleFunction ==
    file_content = ExampleFunction =>
        /\ Tokenized => lexemes(tokenized) = [tag |-> "Ok", val |-> ExampleLexemes]
        /\ Parsed =>
              /\ pc = "done"
              /\ result.tag = "Ok"
              /\ statements =
                    <<FunctionDef(1, "Default", Node1("Type", 8),
                                  <<<<3, Node1("Type", 5)>>>>,
                                  <<[node |-> "Return", expr |-> Node1("Identifier", 11)]>>)>>
              /\ pointer = Len(tokens)

\* The example has been parsed to the end.
C12_ExampleParsed ==
    /\ file_content = ExampleFunction
    /\ pc = "done"
    /\ Len(statements) = 1

\* The kinds of `def f(): t { g() }`, with or without `;` after the call.
EmptyCallKinds ==
    {FunctionHeadKinds \o <<"Identifier", "LParen", "RParen">> \o semi \o <<"RBrace">> :
        semi \in {<<>>, <<"SemiColon">>}}

\* C13: a call with an empty argument list is accepted and yields
\* FunctionCall(g, []).
C13_EmptyCall ==
    (Parsed /\ token_kinds \in EmptyCallKinds) =>
        /\ pc = "done"
        /\ Len(statements) = 1
        /\ statements[1].body = <<FunctionCall(7, <<>>)>>

\* The kinds of `def f(): t { e }` and `def f(): t { e; }`, e one operand token.
BareStatementKinds ==
    {FunctionHeadKinds \o <<e>> \o semi \o <<"RBrace">> :
        e \in OperandKinds, semi \in {<<>>, <<"SemiColon">>}}

\* C14: a statement that is a bare number literal or identifier parses to that
\* node, the parse goes on to its end, and exactly one UnnecessaryCode warning is
\* rendered, positioned on the token of the expression.
C14_BareExpressionStatement ==
    (Parsed /\ token_kinds \in BareStatementKinds) =>
        /\ pc = "done"
        /\ result.tag = "Ok"
        /\ Len(statements) = 1
        /\ statements[1].body = <<operand_node(7)>>
        /\ Len(printed) = 1
        /\ printed[1].level = "Warning"
        /\ printed[1].diagnostic.code_warn_type = "UnnecessaryCode"
        /\ printed[1].diagnostic.position = token_at(7).code_position

\* `5;` has been parsed as the only statement of a block, with its warning.
C14_LiteralStatementParsed ==
    /\ pc = "done"
    /\ token_kinds = FunctionHeadKinds \o <<"NumberInt", "SemiColon", "RBrace">>
    /\ Len(printed) = 1

\* The parse failed with the ParserUnexpectedToken error that consume(expected)
\* raises at the token of index i, with the notes given, and left the cursor at i.
consume_failed_at(i, expected, notes) ==
    /\ pc \in {"visualize_error", "done"}
    /\ result.tag = "Err"
    /\ result.val.code_error_type = "ParserUnexpectedToken"
    /\ result.val.position = token_at(i).code_position
    /\ result.val.footer = <<visualize(expected), visualize(type_at(i))>>
    /\ result.val.notes = notes
    /\ pointer = i
    /\ statements = <<>>

\* The kinds that, right after an operand, are neither an operator, a cast, a
\* separator nor the end of the block.
AfterOperandKinds == {"Identifier", "NumberInt", "NumberFloat", "Return", "LParen"}

\* C15: consume(expected) on a present token of another kind fails with a
\* ParserUnexpectedToken error positioned at that token, naming the expected and
\* the actual kind, with the caller's hint as its only note or no note when the
\* caller gave none, and the cursor stays on the token: (a) consume(Identifier)
\* after `def`, without a hint; (b) consume(RBrace) after a statement, with the
\* missing-semicolon hint.
C15_ConsumeMismatch ==
    /\ (Parsed /\ Len(tokens) >= 2 /\ type_at(0) = "Define"
            /\ type_at(1) \notin Modifiers \cup {"Identifier"}) =>
           consume_failed_at(1, "Identifier", <<>>)
    /\ (Parsed /\ Len(tokens) >= 9
            /\ SubSeq(token_kinds, 1, 8) = FunctionHeadKinds \o <<"NumberInt">>
            /\ type_at(8) \in AfterOperandKinds) =>
           consume_failed_at(8, "RBrace", <<"You may be missing a semi colon">>)

\* consume(RBrace) has met a number after the statement `1`.
C15_MismatchAfterStatement ==
    /\ pc = "done"
    /\ Len(tokens) >= 9
    /\ SubSeq(token_kinds, 1, 9) = FunctionHeadKinds \o <<"NumberInt", "NumberInt">>
    /\ result.tag = "Err"

\* consume(Identifier) has met something else than a name after `def`.
C15_MismatchAfterDef ==
    /\ pc = "done"
    /\ Len(tokens) >= 2
    /\ type_at(0) = "Define"
    /\ type_at(1) \notin Modifiers \cup {"Identifier"}

\* The kinds of the statements `x`, `1` and `return x`.
StatementKinds == {<<"Identifier">>, <<"NumberInt">>, <<"Return", "Identifier">>}

\* The node of the statement of kinds k whose first token has index i.
stmt_node(k, i) ==
    IF k[1] = "Return" THEN [node |-> "Return", expr |-> operand_node(i + 1)]
    ELSE operand_node(i)

\* The only function of the file has been parsed, with this body.
parsed_body(body) ==
    /\ pc = "done"
    /\ result.tag = "Ok"
    /\ Len(statements) = 1
    /\ statements[1].body = body

C16_MissingSeparatorRefused ==
    /\ pc = "done"
    /\ token_kinds = FunctionHeadKinds \o <<"Identifier", "NumberInt", "RBrace">>
    /\ result.tag = "Err"

\* `{}` has been parsed.
C16_EmptyBlockParsed ==
    /\ pc = "done"
    /\ token_kinds = FunctionHeadKinds \o <<"RBrace">>
    /\ Len(statements) = 1

\* The kind of the two-character operator a b, None when a b is not one.
pair_kind(a, b) ==
    CASE a = "&" /\ b = "&" -> "Ref"
      [] a = "-" /\ b = ">" -> "As"
      [] a = ">" /\ b = "=" -> "GreaterEquals"
      [] a = "<" /\ b = "=" -> "LesserEquals"
      [] a = "!" /\ b = "=" -> "NotEquals"
      [] a = "=" /\ b = "=" -> "DoubleEquals"
      [] OTHER -> None

\* The kind of the operator character a on its own.
lone_kind(a) ==
    CASE a = "&" -> "And"
      [] a = "-" -> "Minus"
      [] a = ">" -> "Greater"
      [] a = "<" -> "Lesser"
      [] a = "!" -> "Exclamation"
      [] a = "=" -> "Equals"

\* The kinds of a text of operator characters, read from the left: two characters
\* that make a two-character operator give one token, any other character one.
RECURSIVE operator_kinds(_)
operator_kinds(s) ==
    IF s = <<>> THEN <<>>
    ELSE IF Len(s) >= 2 /\ pair_kind(s[1], s[2]) # None
    THEN <<pair_kind(s[1], s[2])>> \o operator_kinds(SubSeq(s, 3, Len(s)))
    ELSE <<lone_kind(s[1])>> \o operator_kinds(Tail(s))

is_operator_text(s) == \A i \in 1..Len(s) : <<s[i]>> \in OperatorChars

\* C17: the character after `&`, `-`, `>`, `<`, `!`, `=` decides the kind: `&&` is
\* Ref, `->` is As, `>=` `<=` `!=` `==` are GreaterEquals, LesserEquals, NotEquals,
\* DoubleEquals, each one token that takes both characters; otherwise the
\* character alone is And, Minus, Greater, Lesser, Exclamation, Equals.
C17_TwoCharacterLookahead ==
    (Tokenized /\ is_operator_text(file_content)) =>
        /\ tokenized.tag = "Ok"
        /\ token_kinds = operator_kinds(file_content)

\* `->` has been tokenized to one token.
C17_ArrowTokenized ==
    /\ Tokenized
    /\ file_content = <<"-", ">">>
    /\ token_kinds = <<"As">>

is_number_text(s) == \A i \in 1..Len(s) : <<s[i]>> \in NumberChars

dots(s) == Cardinality({i \in 1..Len(s) : s[i] = "."})

\* The length of the number at the head of s, which starts with a digit: the
\* longest run of digits and `.` that holds at most one `.`.
number_run(s) ==
    CHOOSE n \in 1..Len(s) :
        /\ \A i \in 1..n : s[i] \in Digits \cup {"."}
        /\ dots(SubSeq(s, 1, n)) <= 1
        /\ \A m \in (n + 1)..Len(s) :
               \/ \E i \in 1..m : s[i] \notin Digits \cup {"."}
               \/ dots(SubSeq(s, 1, m)) > 1

\* The kinds and lexemes of a text of digits and `.`, read from the left.
RECURSIVE number_lexemes(_)
number_lexemes(s) ==
    IF s = <<>> THEN <<>>
    ELSE IF s[1] = "." THEN <<<<"Dot", <<".">>>>>> \o number_lexemes(Tail(s))
    ELSE <<<<IF dots(SubSeq(s, 1, number_run(s))) = 1 THEN "NumberFloat" ELSE "NumberInt",
             SubSeq(s, 1, number_run(s))>>>>
         \o number_lexemes(SubSeq(s, number_run(s) + 1, Len(s)))

is_number_kind(k) == k \in {"NumberInt", "NumberFloat"}

\* C18: a number token is a run of digits with at most one `.`; the first `.` in
\* the run makes it NumberFloat, a second `.` ends the number and starts a new
\* token, and a run without `.` is NumberInt: `1.2.1` is NumberFloat(1.2), Dot,
\* NumberInt(1).
C18_NumberTokens ==
    (Tokenized /\ is_number_text(file_content)) =>
        /\ tokenized.tag = "Ok"
        /\ token_kinds = [i \in 1..Len(number_lexemes(file_content)) |->
                              number_lexemes(file_content)[i][1]]
        /\ \A i \in 1..Len(tokens) :
               is_number_kind(tokens[i].token_type) =>
                   tokens[i].content = number_lexemes(file_content)[i][2]

\* `1.2.1` has been tokenized to a float, a dot and an integer.
C18_SecondDotTokenized ==
    /\ Tokenized
    /\ file_content = <<"1", ".", "2", ".", "1">>
    /\ lexemes(tokenized).tag = "Ok"
    /\ token_kinds = <<"NumberFloat", "Dot", "NumberInt">>
    /\ tokens[1].content = <<"1", ".", "2">>
    /\ tokens[3].content = <<"1">>

\* s matches [A-Za-z_][A-Za-z0-9_]*.
is_ascii_identifier(s) ==
    /\ s # <<>>
    /\ s[1] \in AsciiLetters \cup {"_"}
    /\ \A i \in 1..Len(s) : s[i] \in AsciiLetters \cup Digits \cup {"_"}

WordKinds ==
    {"Identifier", "Define", "Export", "Import", "Extern", "Mut", "Private", "Return"}

\* C19: the tokens of kind Identifier or keyword are exactly the lexemes of shape
\* [A-Za-z_][A-Za-z0-9_]*, a keyword when the lexeme is one of def, export,
\* import, extern, mut, private, return and an Identifier otherwise; no other
\* character, a non-ASCII letter included, starts or extends one.
C19_AsciiIdentifiers ==
    (Tokenized /\ tokenized.tag = "Ok") =>
        \A i \in 1..Len(tokens) :
            tokens[i].token_type \in WordKinds =>
                /\ is_ascii_identifier(tokens[i].content)
                /\ tokens[i].token_type = keyword_type(tokens[i].content)

\* The text before the first `"` of s, which holds one.
before_quote(s) ==
    SubSeq(s, 1, (CHOOSE i \in 1..Len(s) :
                      s[i] = "\"" /\ \A j \in 1..(i - 1) : s[j] # "\"") - 1)

\* s holds exactly one `"`, outside any comment, and what precedes it is
\* tokenized without error.
opens_unclosed_string(s) ==
    /\ Cardinality({i \in 1..Len(s) : s[i] = "\""}) = 1
    /\ \A i \in 1..Len(before_quote(s)) : before_quote(s)[i] # "#"
    /\ tokenize(before_quote(s)).tag = "Ok"

\* C20: a string literal that the end of the input leaves unclosed makes tokenize
\* fail with the LexerEndOfFile error, which carries the end-of-file position,
\* whatever tokens precede the opening quote.
C20_UnterminatedString ==
    (Tokenized /\ opens_unclosed_string(file_content)) =>
        /\ tokenized.tag = "Err"
        /\ tokenized.val.code_error_type = "LexerEndOfFile"
        /\ tokenized.val.position = eof
        /\ result = tokenized

\* `x "1;` has been refused.
C20_UnclosedAfterTokens ==
    /\ Tokenized
    /\ file_content = <<"x", "\"", "1", ";">>
    /\ tokenized.tag = "Err"

\* C21: within one compile job nothing is rendered, error or warning, before
\* tokenizing and then parsing have completed: while the tokenizer or the parser
\* is still running no diagnostic has been printed.
C21_DiagnosticsAfterParsing ==
    pc \in {"tokenize", "parse"} => printed = <<>>

\* C22: no token that tokenize returns has a position that is_eof() takes for
\* the end-of-file sentinel, a token at offset 0 of the input included.
C22_NoTokenAtSentinel ==
    (Tokenized /\ tokenized.tag = "Ok") =>
        \A i \in 1..Len(tokens) : ~is_eof(tokens[i].code_position)

\* A token that starts at offset 0 of the input has been returned.
C22_TokenAtOffsetZero ==
    /\ Tokenized
    /\ tokenized.tag = "Ok"
    /\ Len(tokens) >= 1
    /\ tokens[1].code_position.idx_start = 0
    /\ tokens[1].code_position.line_idx_start = 0

\* C23: in an expression an identifier immediately followed by `(` is a call named
\* by that identifier, and an identifier followed by anything else is an
\* Identifier node with the rest of the expression parsed after it:
\* `return x(1)` returns FunctionCall(x, [1]) and `return x+(1)` returns
\* BinaryOp(Identifier(x), +, 1).
C23_CallInExpression ==
    /\ (Parsed /\ token_kinds = FunctionHeadKinds
            \o <<"Return", "Identifier", "LParen", "NumberInt", "RParen", "RBrace">>) =>
           /\ parsed_body(<<[node |-> "Return",
                             expr |-> FunctionCall(8, <<Node1("Literal", 10)>>)]>>)
    /\ (Parsed /\ token_kinds = FunctionHeadKinds
            \o <<"Return", "Identifier", "Plus", "LParen", "NumberInt", "RParen", "RBrace">>) =>
           /\ parsed_body(<<[node |-> "Return",
                             expr |-> BinaryOp(Node1("Identifier", 8), 9,
                                               Node1("Literal", 11))]>>)

\* C24: a statement that begins with a String token or with `(` is parsed into
\* its expression node like one that begins with a number or an identifier:
\* `{ "s" }` has the body [String(s)] and `{ (1) }` the body [Literal(1)].
C24_EveryExpressionIsAStatement ==
    /\ (Parsed /\ token_kinds = FunctionHeadKinds \o <<"String", "RBrace">>) =>
           parsed_body(<<Node1("String", 7)>>)
    /\ (Parsed /\ token_kinds = FunctionHeadKinds
                                   \o <<"LParen", "NumberInt", "RParen", "RBrace">>) =>
           parsed_body(<<Node1("Literal", 8)>>)

\* C25: a file may start with an import: for the tokens Import, Identifier(m), ...
\* the parse, started at cursor 0, produces Import(m) as its first node and moves
\* the cursor past the two tokens; the end-of-input test at cursor 0 does not
\* underflow.
C25_ImportFirst ==
    (Parsed /\ Len(tokens) >= 2 /\ type_at(0) = "Import" /\ type_at(1) = "Identifier") =>
        /\ Len(statements) >= 1
        /\ statements[1] = Node1("Import", 1)
        /\ pointer >= 2

\* C26: tokenize is total: for every input it returns its tokens or a CodeError;
\* no position computation underflows or otherwise aborts it.
C26_TokenizeTotal ==
    Tokenized => tokenized.tag \in {"Ok", "Err"}

\* The FunctionCall nodes of the tree n.
RECURSIVE function_calls(_)
function_calls(n) ==
    CASE n.node = "FunctionDef" ->
            UNION {function_calls(n.body[i]) : i \in 1..Len(n.body)}
      [] n.node = "Return" -> function_calls(n.expr)
      [] n.node = "BinaryOp" -> function_calls(n.lhs) \cup function_calls(n.rhs)
      [] n.node = "CastExpr" -> function_calls(n.expr)
      [] n.node = "FunctionCall" ->
            {n} \cup UNION {function_calls(n.args[i]) : i \in 1..Len(n.args)}
      [] OTHER -> {}

\* C27: in every node the parser returns, the name of a FunctionCall is a token
\* of kind Identifier, the one immediately before the `(` that opens the
\* arguments; no operator or other token is ever the name of a call.
C27_CallNameIsIdentifier ==
    \A i \in 1..Len(statements) : \A c \in function_calls(statements[i]) :
        /\ type_at(c.name) = "Identifier"
        /\ type_at(c.name + 1) = "LParen"

\* C28: every position handed to the renderer, of an error or of a warning, has
\* line_idx_start <= line_idx_end, so that range(offset) is a forward range; the
\* warning of an expression statement that spans two lines included.
C28_ForwardRanges ==
    \A i \in 1..Len(printed) :
        printed[i].diagnostic.position.line_idx_start
            <= printed[i].diagnostic.position.line_idx_end

\* The kinds of `def f(): t { e op }`, a statement whose expression lacks its
\* right operand.
HalfExpressionKinds ==
    {FunctionHeadKinds \o <<e, op, "RBrace">> : e \in OperandKinds, op \in ArithmeticKinds}

\* C29: when parse_expression fails inside parse_statement the error is returned
\* and no UnnecessaryCode warning is emitted for the statement.
C29_NoWarningOnError ==
    (Parsed /\ token_kinds \in HalfExpressionKinds) =>
        /\ result.tag = "Err"
        /\ \A i \in 1..Len(printed) : printed[i].level # "Warning"

\* How a rule ended and where it left the cursor.
outcome(r) == [tag |-> r.tag, pointer |-> r.st.pointer]

at(p) == ParserState(p, <<>>)

\* The outcomes, with the cursor at p, of the rules whose production holds at
\* least one token.
token_rule_outcomes(p) ==
    {outcome(parse_function(at(p))), outcome(parse_import(at(p))),
     outcome(parse_block(at(p))), outcome(parse_statement(at(p))),
     outcome(parse_function_call(at(p))), outcome(parse_return(at(p))),
     outcome(parse_expression(at(p))), outcome(parse_term(at(p))),
     outcome(parse_factor(at(p))), outcome(parse_primary(at(p))),
     outcome(parse_type(at(p)))}

\* The outcome of the rule of the arguments, which may be none.
arguments_outcome(p) == outcome(parse_arguments(at(p)))

\* The kinds that the rules ask match_token and consume for.
TokenTypes ==
    {"Identifier", "LParen", "RParen", "Colon", "Comma", "LBrace", "RBrace", "SemiColon",
     "Return", "Import"}

\* The rule that ended with o, started at p, moved the cursor neither back nor
\* past the end.
rule_keeps(o, p) == o.pointer >= p /\ o.pointer <= Len(tokens)

\* m is what match_token gave at p: when it did not match, the cursor is at p.
unmatched_keeps(m, p) == (m.tag = "Ok" /\ ~m.val) => m.st.pointer = p

\* c is what consume gave at p: when it failed, the cursor is at p.
unconsumed_keeps(c, p) == c.tag # "Ok" => c.st.pointer = p

\* A match_token or consume that fails at p leaves the cursor at p.
failed_match_keeps(p) ==
    \A t \in TokenTypes :
        /\ unmatched_keeps(match_token(at(p), t), p)
        /\ unconsumed_keeps(consume(at(p), t, None), p)

\* The parser is about to start on the tokens of the job.
ParseStarts == pc = "parse" /\ pointer = 0 /\ statements = <<>>

\* C30, as stated: the shared cursor never decreases and stays within
\* 0..tokens.len(), a failed match_token or consume leaves it unchanged, and every
\* grammar rule that returns successfully has advanced it by at least one token;
\* the rules are taken at every position of the tokens.
C30_EveryRuleAdvances ==
    /\ (Tokenized /\ tokenized.tag = "Ok") => pointer \in 0..Len(tokens)
    /\ ParseStarts =>
           \A p \in 0..Len(tokens) :
               /\ failed_match_keeps(p)
               /\ \A o \in token_rule_outcomes(p) \cup {arguments_outcome(p)} :
                      rule_keeps(o, p) /\ (o.tag = "Ok" => o.pointer > p)

\* C30, amended: as above for every rule whose production holds a token; the
\* rule of the arguments returns successfully without advancing exactly when
\* there is no argument to parse, and a successful parse of the file leaves the
\* cursor at tokens.len(), which is where it started when the file has no token.
C30_CursorMonotone ==
    /\ (Tokenized /\ tokenized.tag = "Ok") => pointer \in 0..Len(tokens)
    /\ (pc = "done" /\ result.tag = "Ok") => pointer = Len(tokens)
    /\ ParseStarts =>
           \A p \in 0..Len(tokens) :
               /\ failed_match_keeps(p)
               /\ \A o \in token_rule_outcomes(p) :
                      rule_keeps(o, p) /\ (o.tag = "Ok" => o.pointer > p)
               /\ rule_keeps(arguments_outcome(p), p)
               /\ (arguments_outcome(p).tag = "Ok" /\ arguments_outcome(p).pointer = p) <=>
                      ~has_token(p) \/ type_at(p) = "RParen"

\* `def f():t{}` has been parsed: the arguments at `)` were none and left the
\* cursor on it, and the block that follows advanced it to the end.
C30_EmptyArgumentsParsed ==
    /\ pc = "done"
    /\ result.tag = "Ok"
    /\ token_kinds = FunctionHeadKinds \o <<"RBrace">>
    /\ arguments_outcome(3) = [tag |-> "Ok", pointer |-> 3]
    /\ outcome(parse_block(at(6))) = [tag |-> "Ok", pointer |-> 8]
    /\ pointer = 8

====
